---- MODULE Spec2Model ----
(***************************************************************************)
(* Scheduling-slot allocator of the social-media agent.                    *)
(*                                                                         *)
(* A Date is its getTime() value: an integer number of milliseconds.  The  *)
(* origin 0 stands for Thursday 2023-12-28T00:00:00.000Z, so that weekdays *)
(* and hours of day are computed from the value as the Date getters do.    *)
(* The date-fns predicates (isSunday, isMonday, ...) and addDays read the  *)
(* calendar of the process time zone; the process runs in UTC, so that     *)
(* calendar is the UTC calendar.                                           *)
(***************************************************************************)
EXTENDS Integers, Sequences, FiniteSets, TLC

VARIABLES
    storeValue,          \* item under (SCHEDULE_DATES_NAMESPACE, SCHEDULE_DATES_KEY)
    DEFAULT_TAKEN_DATES, \* the module-level object of that name (its arrays are mutable)
    tick,                \* the system clock, as the number of the current instant
    res,                 \* outcome of the latest operation
    assigned,            \* the slots handed out by successful tier requests
    faults,              \* the number of calls made so far with a missing or failing store
    aTier,               \* allocator feedback run: the tier
    aTaken,              \* allocator feedback run: the taken sequence of that tier
    procs,               \* the calls in flight: where each stands and what it holds
    thread,              \* the latest run of humanNode: what it was given and what it did
    loader               \* the run of twitterLoader: its locals and the pages it fetched

vars ==
    <<storeValue, DEFAULT_TAKEN_DATES, tick, res, assigned, faults, aTier, aTaken, procs,
      thread, loader>>

allocVars == <<aTier, aTaken>>

raceVars == <<procs>>

nodeVars == <<thread, loader>>

schedVars ==
    <<storeValue, DEFAULT_TAKEN_DATES, tick, res, assigned, faults, aTier, aTaken, procs>>

----------------------------------------------------------------------------
(* Bounds of the model *)

\* slots handed out in one run of requests whose store works
MaxAssigned == 4
\* calls made with a missing or failing store in one run
MaxFaults == 1
\* slots handed out, and slots pushed onto the taken sequences, in one run of
\* requests whose store may be missing or fail
MaxAssignedWithFaults == 2
\* length of an allocator feedback run
MaxFeed == 13
\* slots handed out before and after the calls that are in flight together
MaxAssignedAroundRace == 2
\* the last day on which an anchor of the p3 scan is taken
MaxAnchorDay == 6
\* length of a tier's sequence in a value written to the store and read back
MaxRoundTripLen == 2
\* the number of tweets in a page of the list
MaxPageLen == 2
\* the number of tweets in a page of the list, where termination is checked
MaxPageLenLive == 1

\* explicit dates, as a distance in ms from baseDate
ExplicitDeltas == {-3600000, -1000, -1, 0, 1, 999, 1000, 3600000}

Priorities == {"p1", "p2", "p3"}

----------------------------------------------------------------------------
(* Date *)

MS_PER_SECOND == 10 * 100
MS_PER_HOUR == 3600 * MS_PER_SECOND
MS_PER_DAY == 24 * MS_PER_HOUR

\* getUTCDay: 0 = Sunday .. 6 = Saturday; day 0 of the model is a Thursday
getUTCDay(d) == ((d \div MS_PER_DAY) + 4) % 7
getUTCHours(d) == (d % MS_PER_DAY) \div MS_PER_HOUR
\* the triple (getUTCFullYear, getUTCMonth, getUTCDate) as a day number
getUTCYMD(d) == d \div MS_PER_DAY
\* new Date(Date.UTC(y, m, d, hour, 0, 0, 0))
DateUTC(ymd, hour) == ymd * MS_PER_DAY + hour * MS_PER_HOUR
\* date.setUTCHours(0, 0, 0, 0)
setUTCHours0(d) == DateUTC(getUTCYMD(d), 0)
addDays(d, n) == d + n * MS_PER_DAY

isSunday(d) == getUTCDay(d) = 0
isMonday(d) == getUTCDay(d) = 1
isFriday(d) == getUTCDay(d) = 5
isSaturday(d) == getUTCDay(d) = 6

\* ./utils.js
isWeekend(d) == isSaturday(d) \/ isSunday(d)
isMondayOrFriday(d) == isMonday(d) \/ isFriday(d)
\* the first day after d whose weekday is wd, at midnight
nextWeekday(d, wd) ==
    LET delta == wd - getUTCDay(d)
    IN  setUTCHours0(addDays(d, IF delta <= 0 THEN delta + 7 ELSE delta))
getNextSaturday(d) == nextWeekday(d, 6)
getNextFriday(d) == nextWeekday(d, 5)
getNextMonday(d) == nextWeekday(d, 1)

\* toISOString that writes whole seconds
toISOString_NoMillis(d) ==
    [ymd |-> d \div MS_PER_DAY,
     h   |-> (d % MS_PER_DAY) \div MS_PER_HOUR,
     mi  |-> (d % MS_PER_HOUR) \div (60 * MS_PER_SECOND),
     s   |-> (d % (60 * MS_PER_SECOND)) \div MS_PER_SECOND,
     ms  |-> 0]

\* Date.prototype.toISOString, "YYYY-MM-DDTHH:mm:ss.sssZ": the fields of the string
toISOString(d) ==
    [ymd |-> d \div MS_PER_DAY,
     h   |-> (d % MS_PER_DAY) \div MS_PER_HOUR,
     mi  |-> (d % MS_PER_HOUR) \div (60 * MS_PER_SECOND),
     s   |-> (d % (60 * MS_PER_SECOND)) \div MS_PER_SECOND,
     ms  |-> d % MS_PER_SECOND]
\* new Date(isoString)
newDate(str) ==
    str.ymd * MS_PER_DAY + str.h * MS_PER_HOUR + str.mi * 60 * MS_PER_SECOND
        + str.s * MS_PER_SECOND + str.ms

MapSeq(F(_), seq) == [i \in 1..Len(seq) |-> F(seq[i])]

----------------------------------------------------------------------------
(* Calendar rules *)

Slot(d, h) == [day |-> d, hour |-> h]

ALLOWED_P1_DAY_AND_TIMES_IN_UTC ==
    << Slot(0, 16), Slot(0, 17), Slot(0, 18),
       Slot(6, 16), Slot(6, 17), Slot(6, 18) >>

LAST_ALLOWED_P1_HOUR == 18
FIRST_ALLOWED_P1_HOUR == 16

ALLOWED_P2_DAY_AND_TIMES_IN_UTC ==
    << Slot(1, 16), Slot(1, 17), Slot(1, 18),
       Slot(5, 16), Slot(5, 17), Slot(5, 18),
       Slot(0, 19), Slot(0, 20), Slot(0, 21),
       Slot(6, 19), Slot(6, 20), Slot(6, 21) >>

FIRST_ALLOWED_P2_HOUR_WEEKDAY == 16
LAST_ALLOWED_P2_HOUR_WEEKDAY == 18
FIRST_ALLOWED_P2_HOUR_WEEKEND == 19
LAST_ALLOWED_P2_HOUR_WEEKEND == 21

\* the p3 table with one more hour on Monday
ALLOWED_P3_WithMondayTwo ==
    << Slot(6, 21), Slot(6, 22), Slot(6, 23),
       Slot(0, 0), Slot(0, 1), Slot(0, 21), Slot(0, 22), Slot(0, 23),
       Slot(1, 0), Slot(1, 1), Slot(1, 2) >>

ALLOWED_P3_DAY_AND_TIMES_IN_UTC ==
    << Slot(6, 21), Slot(6, 22), Slot(6, 23),
       Slot(0, 0), Slot(0, 1), Slot(0, 21), Slot(0, 22), Slot(0, 23),
       Slot(1, 0), Slot(1, 1) >>

AllowedTable(priority) ==
    CASE priority = "p1" -> ALLOWED_P1_DAY_AND_TIMES_IN_UTC
      [] priority = "p2" -> ALLOWED_P2_DAY_AND_TIMES_IN_UTC
      [] priority = "p3" -> ALLOWED_P3_DAY_AND_TIMES_IN_UTC

----------------------------------------------------------------------------
(* Taken-slot store *)

EmptyTaken == [p1 |-> <<>>, p2 |-> <<>>, p3 |-> <<>>]

\* what store.get returns: no item, or an item whose value holds the ISO strings
NoItem == [written |-> FALSE, taken_dates |-> EmptyTaken]

\* the store of a request: usable, not configured, or failing in get or in put
StoreConfigs == {"ok", "none", "getThrows", "putThrows"}

\* getTakenScheduleDates that answers DEFAULT_TAKEN_DATES when the store is missing
\* or store.get throws
getTakenScheduleDates_FallsBackToDefault(cfg) ==
    IF cfg \in {"none", "getThrows"} \/ ~storeValue.written
    THEN [ok |-> TRUE, err |-> "", taken |-> DEFAULT_TAKEN_DATES, shared |-> TRUE]
    ELSE [ok |-> TRUE, err |-> "", shared |-> FALSE,
          taken |-> [p1 |-> MapSeq(newDate, storeValue.taken_dates.p1),
                     p2 |-> MapSeq(newDate, storeValue.taken_dates.p2),
                     p3 |-> MapSeq(newDate, storeValue.taken_dates.p3)]]

\* getTakenScheduleDates: [ok, err, taken, shared]; shared tells that taken IS the
\* DEFAULT_TAKEN_DATES object and not a fresh one
getTakenScheduleDates(cfg) ==
    IF cfg = "none"
    THEN [ok |-> FALSE, err |-> "No store provided", taken |-> EmptyTaken, shared |-> FALSE]
    ELSE IF cfg = "getThrows"
    THEN [ok |-> FALSE, err |-> "store.get", taken |-> EmptyTaken, shared |-> FALSE]
    ELSE IF ~storeValue.written
    THEN [ok |-> TRUE, err |-> "", taken |-> DEFAULT_TAKEN_DATES, shared |-> TRUE]
    ELSE [ok |-> TRUE, err |-> "", shared |-> FALSE,
          taken |-> [p1 |-> MapSeq(newDate, storeValue.taken_dates.p1),
                     p2 |-> MapSeq(newDate, storeValue.taken_dates.p2),
                     p3 |-> MapSeq(newDate, storeValue.taken_dates.p3)]]

\* putTakenScheduleDates: [ok, err, item], item being the item of the store afterwards
putTakenScheduleDates(takenDates, cfg) ==
    IF cfg = "none"
    THEN [ok |-> FALSE, err |-> "No store provided", item |-> storeValue]
    ELSE IF cfg = "putThrows"
    THEN [ok |-> FALSE, err |-> "store.put", item |-> storeValue]
    ELSE [ok |-> TRUE, err |-> "",
          item |-> [written |-> TRUE,
                    taken_dates |-> [p1 |-> MapSeq(toISOString, takenDates.p1),
                                     p2 |-> MapSeq(toISOString, takenDates.p2),
                                     p3 |-> MapSeq(toISOString, takenDates.p3)]]]

\* getAfterSeconds that rounds to the nearest second
getAfterSeconds_Rounds(date, baseDate) == (date - baseDate + 500) \div MS_PER_SECOND

\* Math.floor((date.getTime() - baseDate.getTime()) / 1000)
getAfterSeconds(date, baseDate) == (date - baseDate) \div MS_PER_SECOND

----------------------------------------------------------------------------
(* Slot allocator *)

Found(d) == [ok |-> TRUE, date |-> d, err |-> ""]
Thrown(e) == [ok |-> FALSE, date |-> 0, err |-> e]

\* Array.prototype.filter on a rule table
FilterSlots(table, Keep(_)) == SelectSeq(table, Keep)

\* Array.prototype.sort((a, b) => a.hour - b.hour): stable insertion by hour
RECURSIVE InsertByHour(_, _)
InsertByHour(slot, sorted) ==
    IF sorted = <<>> THEN <<slot>>
    ELSE IF slot.hour < Head(sorted).hour THEN <<slot>> \o sorted
    ELSE <<Head(sorted)>> \o InsertByHour(slot, Tail(sorted))

RECURSIVE SortByHour(_)
SortByHour(slots) ==
    IF slots = <<>> THEN <<>>
    ELSE InsertByHour(slots[Len(slots)], SortByHour(SubSeq(slots, 1, Len(slots) - 1)))

\* table.find((d) => d.day === day)?.hour, -1 standing for undefined
FindHour(table, day) ==
    LET hits == FilterSlots(table, LAMBDA s : s.day = day)
    IN  IF hits = <<>> THEN -1 ELSE hits[1].hour

\* ColdStart with the first weekday hour of p2 used for every day of p2
ColdStart_WeekdayHourOnly(dateToCheck, priority) ==
    LET dateToCheckDay == getUTCDay(dateToCheck)
        allowedHour == FindHour(AllowedTable(priority), dateToCheckDay)
    IN  IF priority = "p1"
        THEN Found(DateUTC(getUTCYMD(dateToCheck), FIRST_ALLOWED_P1_HOUR))
        ELSE IF allowedHour = -1
        THEN Thrown("Unreachable code")
        ELSE IF priority = "p2"
        THEN Found(DateUTC(getUTCYMD(dateToCheck), FIRST_ALLOWED_P2_HOUR_WEEKDAY))
        ELSE Found(DateUTC(getUTCYMD(dateToCheck), allowedHour))

\* the branch of getNextAvailableDate taken when nothing is taken for the priority
ColdStart(dateToCheck, priority) ==
    LET dateToCheckDay == getUTCDay(dateToCheck)
        allowedHour == FindHour(AllowedTable(priority), dateToCheckDay)
    IN  IF priority = "p1"
        THEN Found(DateUTC(getUTCYMD(dateToCheck), FIRST_ALLOWED_P1_HOUR))
        ELSE IF allowedHour = -1
        THEN Thrown("Unreachable code")
        ELSE Found(DateUTC(getUTCYMD(dateToCheck), allowedHour))

\* NextP1 that forgets to add one hour to the last taken hour
NextP1_SameHour(lastTakenDate) ==
    LET lastTakenHour == getUTCHours(lastTakenDate)
        nextDay == addDays(lastTakenDate, 1)
    IN  IF lastTakenHour < LAST_ALLOWED_P1_HOUR
        THEN Found(DateUTC(getUTCYMD(lastTakenDate), lastTakenHour))
        ELSE IF isSunday(nextDay)
        THEN Found(DateUTC(getUTCYMD(nextDay), FIRST_ALLOWED_P1_HOUR))
        ELSE Found(DateUTC(getUTCYMD(getNextSaturday(lastTakenDate)), FIRST_ALLOWED_P1_HOUR))

\* NextP1 that leaves the day one hour too early
NextP1_EarlyRoll(lastTakenDate) ==
    LET lastTakenHour == getUTCHours(lastTakenDate)
        nextDay == addDays(lastTakenDate, 1)
    IN  IF lastTakenHour + 1 < LAST_ALLOWED_P1_HOUR
        THEN Found(DateUTC(getUTCYMD(lastTakenDate), lastTakenHour + 1))
        ELSE IF isSunday(nextDay)
        THEN Found(DateUTC(getUTCYMD(nextDay), FIRST_ALLOWED_P1_HOUR))
        ELSE Found(DateUTC(getUTCYMD(getNextSaturday(lastTakenDate)), FIRST_ALLOWED_P1_HOUR))

NextP1(lastTakenDate) ==
    LET lastTakenHour == getUTCHours(lastTakenDate)
        nextDay == addDays(lastTakenDate, 1)
    IN  IF lastTakenHour < LAST_ALLOWED_P1_HOUR
        THEN Found(DateUTC(getUTCYMD(lastTakenDate), lastTakenHour + 1))
        ELSE IF isSunday(nextDay)
        THEN Found(DateUTC(getUTCYMD(nextDay), FIRST_ALLOWED_P1_HOUR))
        ELSE Found(DateUTC(getUTCYMD(getNextSaturday(lastTakenDate)), FIRST_ALLOWED_P1_HOUR))

\* NextP2 that compares weekend hours with the last weekday hour
NextP2_WeekdayLimitOnWeekend(lastTakenDate) ==
    LET lastTakenHour == getUTCHours(lastTakenDate)
        nextDay == addDays(lastTakenDate, 1)
    IN  IF isMondayOrFriday(lastTakenDate)
        THEN IF lastTakenHour < LAST_ALLOWED_P2_HOUR_WEEKDAY
             THEN Found(DateUTC(getUTCYMD(lastTakenDate), lastTakenHour + 1))
             ELSE IF isMonday(lastTakenDate)
             THEN Found(DateUTC(getUTCYMD(getNextFriday(lastTakenDate)),
                                FIRST_ALLOWED_P2_HOUR_WEEKDAY))
             ELSE Found(DateUTC(getUTCYMD(getNextSaturday(lastTakenDate)),
                                FIRST_ALLOWED_P2_HOUR_WEEKEND))
        ELSE IF isWeekend(lastTakenDate)
        THEN IF lastTakenHour < LAST_ALLOWED_P2_HOUR_WEEKDAY
             THEN Found(DateUTC(getUTCYMD(lastTakenDate), lastTakenHour + 1))
             ELSE IF isSunday(nextDay)
             THEN Found(DateUTC(getUTCYMD(nextDay), FIRST_ALLOWED_P2_HOUR_WEEKEND))
             ELSE Found(DateUTC(getUTCYMD(getNextMonday(lastTakenDate)),
                                FIRST_ALLOWED_P2_HOUR_WEEKDAY))
        ELSE Found(DateUTC(getUTCYMD(getNextFriday(lastTakenDate)),
                           FIRST_ALLOWED_P2_HOUR_WEEKDAY))

NextP2(lastTakenDate) ==
    LET lastTakenHour == getUTCHours(lastTakenDate)
        nextDay == addDays(lastTakenDate, 1)
    IN  IF isMondayOrFriday(lastTakenDate)
        THEN IF lastTakenHour < LAST_ALLOWED_P2_HOUR_WEEKDAY
             THEN Found(DateUTC(getUTCYMD(lastTakenDate), lastTakenHour + 1))
             ELSE IF isMonday(lastTakenDate)
             THEN Found(DateUTC(getUTCYMD(getNextFriday(lastTakenDate)),
                                FIRST_ALLOWED_P2_HOUR_WEEKDAY))
             ELSE Found(DateUTC(getUTCYMD(getNextSaturday(lastTakenDate)),
                                FIRST_ALLOWED_P2_HOUR_WEEKEND))
        ELSE IF isWeekend(lastTakenDate)
        THEN IF lastTakenHour < LAST_ALLOWED_P2_HOUR_WEEKEND
             THEN Found(DateUTC(getUTCYMD(lastTakenDate), lastTakenHour + 1))
             ELSE IF isSunday(nextDay)
             THEN Found(DateUTC(getUTCYMD(nextDay), FIRST_ALLOWED_P2_HOUR_WEEKEND))
             ELSE Found(DateUTC(getUTCYMD(getNextMonday(lastTakenDate)),
                                FIRST_ALLOWED_P2_HOUR_WEEKDAY))
        ELSE Found(DateUTC(getUTCYMD(getNextFriday(lastTakenDate)),
                           FIRST_ALLOWED_P2_HOUR_WEEKDAY))

\* ScanP3 that gives up after four days
RECURSIVE ScanP3_FourDays(_, _)
ScanP3_FourDays(candidate, i) ==
    IF i >= 4
    THEN Thrown("Couldn't find a valid p3 slot within 2 weeks!")
    ELSE LET candidateDay == getUTCDay(candidate)
             validSlots == SortByHour(FilterSlots(ALLOWED_P3_DAY_AND_TIMES_IN_UTC,
                                                  LAMBDA slot : slot.day = candidateDay))
         IN  IF validSlots # <<>>
             THEN Found(DateUTC(getUTCYMD(candidate), validSlots[1].hour))
             ELSE ScanP3_FourDays(addDays(candidate, 1), i + 1)

\* the loop "for (let i = 0; i < 14; i++)" of the p3 branch, from iteration i on
RECURSIVE ScanP3(_, _)
ScanP3(candidate, i) ==
    IF i >= 14
    THEN Thrown("Couldn't find a valid p3 slot within 2 weeks!")
    ELSE LET candidateDay == getUTCDay(candidate)
             validSlots == SortByHour(FilterSlots(ALLOWED_P3_DAY_AND_TIMES_IN_UTC,
                                                  LAMBDA slot : slot.day = candidateDay))
         IN  IF validSlots # <<>>
             THEN Found(DateUTC(getUTCYMD(candidate), validSlots[1].hour))
             ELSE ScanP3(addDays(candidate, 1), i + 1)

\* NextP3 whose day-by-day scan starts on the day of the last taken date
NextP3_ScanFromSameDay(lastTakenDate) ==
    LET lastDay == getUTCDay(lastTakenDate)
        lastHour == getUTCHours(lastTakenDate)
        sameDaySlots == SortByHour(FilterSlots(ALLOWED_P3_DAY_AND_TIMES_IN_UTC,
                            LAMBDA slot : slot.day = lastDay /\ slot.hour > lastHour))
    IN  IF sameDaySlots # <<>>
        THEN Found(DateUTC(getUTCYMD(lastTakenDate), sameDaySlots[1].hour))
        ELSE ScanP3(DateUTC(getUTCYMD(lastTakenDate), 0), 0)

NextP3(lastTakenDate) ==
    LET lastDay == getUTCDay(lastTakenDate)
        lastHour == getUTCHours(lastTakenDate)
        sameDaySlots == SortByHour(FilterSlots(ALLOWED_P3_DAY_AND_TIMES_IN_UTC,
                            LAMBDA slot : slot.day = lastDay /\ slot.hour > lastHour))
    IN  IF sameDaySlots # <<>>
        THEN Found(DateUTC(getUTCYMD(lastTakenDate), sameDaySlots[1].hour))
        ELSE ScanP3(addDays(DateUTC(getUTCYMD(lastTakenDate), 0), 1), 0)

\* getNextAvailableDate that starts afresh from dateToCheck when the slot after the
\* last taken one is not after dateToCheck
getNextAvailableDate_NotBeforeNow(dateToCheck, priority, takenDates) ==
    LET takenDatesForPriority == takenDates[priority]
        lastTakenDate == takenDatesForPriority[Len(takenDatesForPriority)]
        next == CASE priority = "p1" -> NextP1(lastTakenDate)
                  [] priority = "p2" -> NextP2(lastTakenDate)
                  [] priority = "p3" -> NextP3(lastTakenDate)
    IN  IF Len(takenDatesForPriority) = 0
        THEN ColdStart(dateToCheck, priority)
        ELSE IF next.ok /\ next.date <= dateToCheck
        THEN ColdStart(dateToCheck, priority)
        ELSE next

getNextAvailableDate(dateToCheck, priority, takenDates) ==
    LET takenDatesForPriority == takenDates[priority]
        lastTakenDate == takenDatesForPriority[Len(takenDatesForPriority)]
    IN  IF Len(takenDatesForPriority) = 0
        THEN ColdStart(dateToCheck, priority)
        ELSE CASE priority = "p1" -> NextP1(lastTakenDate)
               [] priority = "p2" -> NextP2(lastTakenDate)
               [] priority = "p3" -> NextP3(lastTakenDate)

\* validateScheduleDate that lets a delay of zero seconds through
validateScheduleDate_AllowsZero(date, baseDate) == ~(getAfterSeconds(date, baseDate) < 0)

\* validateScheduleDate: TRUE when it returns, FALSE when it throws
validateScheduleDate(date, baseDate) == ~(getAfterSeconds(date, baseDate) <= 0)

\* validateAfterSeconds: TRUE when it returns, FALSE when it throws
validateAfterSeconds(afterSeconds) == ~(afterSeconds < 0)

\* the part of getScheduledDateSeconds that moves currentTime past a day whose
\* window has elapsed
\* NormalizeP1 that leaves a weekday as it is
NormalizeP1_KeepsWeekday(baseDate) ==
    LET currentDayUTCHours == getUTCHours(baseDate)
        nextMidnight == setUTCHours0(addDays(baseDate, 1))
    IN  IF isWeekend(baseDate)
        THEN IF currentDayUTCHours >= LAST_ALLOWED_P1_HOUR
             THEN IF ~isSunday(nextMidnight)
                  THEN getNextSaturday(nextMidnight)
                  ELSE nextMidnight
             ELSE baseDate
        ELSE baseDate

NormalizeP1(baseDate) ==
    LET currentDayUTCHours == getUTCHours(baseDate)
        nextMidnight == setUTCHours0(addDays(baseDate, 1))
    IN  IF isWeekend(baseDate)
        THEN IF currentDayUTCHours >= LAST_ALLOWED_P1_HOUR
             THEN IF ~isSunday(nextMidnight)
                  THEN getNextSaturday(nextMidnight)
                  ELSE nextMidnight
             ELSE baseDate
        ELSE getNextSaturday(baseDate)

NormalizeP2(baseDate) ==
    LET currentDayUTCHours == getUTCHours(baseDate)
        nextDay == addDays(baseDate, 1)
    IN  IF isMondayOrFriday(baseDate)
        THEN IF currentDayUTCHours >= LAST_ALLOWED_P2_HOUR_WEEKDAY
             THEN IF isFriday(baseDate)
                  THEN setUTCHours0(addDays(baseDate, 1))
                  ELSE getNextFriday(baseDate)
             ELSE baseDate
        ELSE IF isWeekend(baseDate)
        THEN IF currentDayUTCHours >= LAST_ALLOWED_P2_HOUR_WEEKEND
             THEN IF isSunday(nextDay)
                  THEN setUTCHours0(nextDay)
                  ELSE getNextMonday(baseDate)
             ELSE baseDate
        ELSE getNextFriday(baseDate)

\* NormalizeP3 that rolls forward only after hour 23
NormalizeP3_StrictCutoff(baseDate) ==
    LET hour == getUTCHours(baseDate)
        tmp == setUTCHours0(addDays(baseDate, 1))
    IN  IF isSaturday(baseDate)
        THEN IF hour > 23
             THEN IF ~isSunday(tmp) /\ ~isMonday(tmp) THEN getNextSaturday(tmp) ELSE tmp
             ELSE baseDate
        ELSE IF isSunday(baseDate)
        THEN IF hour > 23
             THEN IF ~isMonday(tmp) THEN getNextSaturday(tmp) ELSE tmp
             ELSE baseDate
        ELSE IF isMonday(baseDate)
        THEN IF hour >= 0 /\ hour > 1
             THEN getNextSaturday(tmp)
             ELSE baseDate
        ELSE getNextSaturday(baseDate)

NormalizeP3(baseDate) ==
    LET hour == getUTCHours(baseDate)
        tmp == setUTCHours0(addDays(baseDate, 1))
    IN  IF isSaturday(baseDate)
        THEN IF hour >= 23
             THEN IF ~isSunday(tmp) /\ ~isMonday(tmp) THEN getNextSaturday(tmp) ELSE tmp
             ELSE baseDate
        ELSE IF isSunday(baseDate)
        THEN IF hour >= 23
             THEN IF ~isMonday(tmp) THEN getNextSaturday(tmp) ELSE tmp
             ELSE baseDate
        ELSE IF isMonday(baseDate)
        THEN IF hour >= 0 /\ hour > 1
             THEN getNextSaturday(tmp)
             ELSE baseDate
        ELSE getNextSaturday(baseDate)

NormalizeCurrentTime(priority, baseDate) ==
    CASE priority = "p1" -> NormalizeP1(baseDate)
      [] priority = "p2" -> NormalizeP2(baseDate)
      [] priority = "p3" -> NormalizeP3(baseDate)

----------------------------------------------------------------------------
(* Scheduling facade *)

\* a DateType value: a Date (valid or Invalid Date) or a string
DateValue(t) == [kind |-> "date", time |-> t, token |-> ""]
InvalidDate == [kind |-> "invalidDate", time |-> 0, token |-> ""]
Token(str) == [kind |-> "token", time |-> 0, token |-> str]

\* isValid that accepts any Date object, Invalid Date included
isValid_AnyDateObject(scheduleDate) == scheduleDate.kind \in {"date", "invalidDate"}

\* date-fns isValid: a Date object whose time is not NaN
isValid(scheduleDate) == scheduleDate.kind = "date"

\* what a call leaves behind: the value returned or the error thrown, the date (the
\* explicit date, or the candidate slot with computed = TRUE once getNextAvailableDate
\* has returned one), the item of the store, the DEFAULT_TAKEN_DATES object, and the
\* numbers of store.get and store.put calls made
Outcome(ok, err, delay, computed, date, item, dflt, gets, puts) ==
    [ok |-> ok, err |-> err, delay |-> delay, computed |-> computed, date |-> date,
     item |-> item, dflt |-> dflt, gets |-> gets, puts |-> puts]

Fails(err, computed, date, dflt, gets, puts) ==
    Outcome(FALSE, err, 0, computed, date, storeValue, dflt, gets, puts)

\* getScheduledDateSeconds that reads the taken dates before it looks at the request
getScheduledDateSeconds_ReadsStoreFirst(scheduleDate, cfg, baseDate) ==
    LET got == getTakenScheduleDates(cfg)
        gets == IF cfg = "none" THEN 0 ELSE 1
    IN
    IF ~got.ok
    THEN Fails(got.err, FALSE, IF isValid(scheduleDate) THEN scheduleDate.time ELSE 0,
               DEFAULT_TAKEN_DATES, gets, 0)
    ELSE IF isValid(scheduleDate)
    THEN LET afterSeconds == getAfterSeconds(scheduleDate.time, baseDate)
         IN  IF validateAfterSeconds(afterSeconds)
             THEN Outcome(TRUE, "", afterSeconds, FALSE, scheduleDate.time, storeValue,
                          DEFAULT_TAKEN_DATES, gets, 0)
             ELSE Fails("Schedule date must be in the future", FALSE, scheduleDate.time,
                        DEFAULT_TAKEN_DATES, gets, 0)
    ELSE IF scheduleDate.token \notin {"p1", "p2", "p3"}
    THEN Fails("Invalid priority level", FALSE, 0, DEFAULT_TAKEN_DATES, gets, 0)
    ELSE
    LET priority == scheduleDate.token
        takenScheduleDates == got.taken
        currentTime == NormalizeCurrentTime(priority, baseDate)
        nextAvailDate == getNextAvailableDate(currentTime, priority, takenScheduleDates)
        pushed == [takenScheduleDates EXCEPT
                      ![priority] = Append(@, nextAvailDate.date)]
        dflt == IF got.shared THEN pushed ELSE DEFAULT_TAKEN_DATES
        put == putTakenScheduleDates(pushed, cfg)
    IN  IF ~nextAvailDate.ok
        THEN Fails(nextAvailDate.err, FALSE, 0, DEFAULT_TAKEN_DATES, 1, 0)
        ELSE IF ~validateScheduleDate(nextAvailDate.date, baseDate)
        THEN Fails("Schedule date must be in the future", TRUE, nextAvailDate.date,
                   DEFAULT_TAKEN_DATES, 1, 0)
        ELSE IF ~put.ok
        THEN Fails(put.err, TRUE, nextAvailDate.date, dflt, 1, 1)
        ELSE Outcome(TRUE, "", getAfterSeconds(nextAvailDate.date, baseDate), TRUE,
                     nextAvailDate.date, put.item, dflt, 1, 1)

\* getScheduledDateSeconds that writes the store before it validates the slot
getScheduledDateSeconds_PutBeforeValidate(scheduleDate, cfg, baseDate) ==
    IF isValid(scheduleDate)
    THEN LET afterSeconds == getAfterSeconds(scheduleDate.time, baseDate)
         IN  IF validateAfterSeconds(afterSeconds)
             THEN Outcome(TRUE, "", afterSeconds, FALSE, scheduleDate.time, storeValue,
                          DEFAULT_TAKEN_DATES, 0, 0)
             ELSE Fails("Schedule date must be in the future", FALSE, scheduleDate.time,
                        DEFAULT_TAKEN_DATES, 0, 0)
    ELSE IF scheduleDate.token \notin {"p1", "p2", "p3"}
    THEN Fails("Invalid priority level", FALSE, 0, DEFAULT_TAKEN_DATES, 0, 0)
    ELSE
    LET priority == scheduleDate.token
        got == getTakenScheduleDates(cfg)
        takenScheduleDates == got.taken
        currentTime == NormalizeCurrentTime(priority, baseDate)
        nextAvailDate == getNextAvailableDate(currentTime, priority, takenScheduleDates)
        pushed == [takenScheduleDates EXCEPT
                      ![priority] = Append(@, nextAvailDate.date)]
        dflt == IF got.shared THEN pushed ELSE DEFAULT_TAKEN_DATES
        put == putTakenScheduleDates(pushed, cfg)
    IN  IF ~got.ok
        THEN Fails(got.err, FALSE, 0, DEFAULT_TAKEN_DATES, IF cfg = "none" THEN 0 ELSE 1, 0)
        ELSE IF ~nextAvailDate.ok
        THEN Fails(nextAvailDate.err, FALSE, 0, DEFAULT_TAKEN_DATES, 1, 0)
        ELSE IF ~put.ok
        THEN Fails(put.err, TRUE, nextAvailDate.date, dflt, 1, 1)
        ELSE IF ~validateScheduleDate(nextAvailDate.date, baseDate)
        THEN Outcome(FALSE, "Schedule date must be in the future", 0, TRUE,
                     nextAvailDate.date, put.item, dflt, 1, 1)
        ELSE Outcome(TRUE, "", getAfterSeconds(nextAvailDate.date, baseDate), TRUE,
                     nextAvailDate.date, put.item, dflt, 1, 1)

getScheduledDateSeconds(scheduleDate, cfg, baseDate) ==
    IF isValid(scheduleDate)
    THEN LET afterSeconds == getAfterSeconds(scheduleDate.time, baseDate)
         IN  IF validateAfterSeconds(afterSeconds)
             THEN Outcome(TRUE, "", afterSeconds, FALSE, scheduleDate.time, storeValue,
                          DEFAULT_TAKEN_DATES, 0, 0)
             ELSE Fails("Schedule date must be in the future", FALSE, scheduleDate.time,
                        DEFAULT_TAKEN_DATES, 0, 0)
    ELSE IF scheduleDate.token \notin {"p1", "p2", "p3"}
    THEN Fails("Invalid priority level", FALSE, 0, DEFAULT_TAKEN_DATES, 0, 0)
    ELSE
    LET priority == scheduleDate.token
        got == getTakenScheduleDates(cfg)
        takenScheduleDates == got.taken
        currentTime == NormalizeCurrentTime(priority, baseDate)
        nextAvailDate == getNextAvailableDate(currentTime, priority, takenScheduleDates)
        \* takenScheduleDates[priority].push(nextAvailDate)
        pushed == [takenScheduleDates EXCEPT
                      ![priority] = Append(@, nextAvailDate.date)]
        \* the push writes through to DEFAULT_TAKEN_DATES when get returned that object
        dflt == IF got.shared THEN pushed ELSE DEFAULT_TAKEN_DATES
        put == putTakenScheduleDates(pushed, cfg)
    IN  IF ~got.ok
        THEN Fails(got.err, FALSE, 0, DEFAULT_TAKEN_DATES, IF cfg = "none" THEN 0 ELSE 1, 0)
        ELSE IF ~nextAvailDate.ok
        THEN Fails(nextAvailDate.err, FALSE, 0, DEFAULT_TAKEN_DATES, 1, 0)
        ELSE IF ~validateScheduleDate(nextAvailDate.date, baseDate)
        THEN Fails("Schedule date must be in the future", TRUE, nextAvailDate.date,
                   DEFAULT_TAKEN_DATES, 1, 0)
        ELSE IF ~put.ok
        THEN Fails(put.err, TRUE, nextAvailDate.date, dflt, 1, 1)
        ELSE Outcome(TRUE, "", getAfterSeconds(nextAvailDate.date, baseDate), TRUE,
                     nextAvailDate.date, put.item, dflt, 1, 1)

----------------------------------------------------------------------------
(* Sequential execution of requests *)

\* The instants at which requests are issued, in time order, from Thursday
\* 2023-12-28 (day 0) to Monday 2024-01-01 (day 4): on each day, the hours at which a
\* window of some tier of that weekday ends (Monday 1 and 2 for p3, 18 for p1 and weekday
\* p2, 21 for weekend p2, 23 for p3), each exactly and half a second before, and a
\* morning hour before the windows.
JustBefore(day, hour) == DateUTC(day, hour) - 500
NowInstants ==
    << DateUTC(0, 10),
       JustBefore(1, 18), DateUTC(1, 18),
       DateUTC(2, 10), JustBefore(2, 18), DateUTC(2, 18), JustBefore(2, 21),
       DateUTC(2, 21), JustBefore(2, 23), DateUTC(2, 23),
       DateUTC(3, 10), JustBefore(3, 18), DateUTC(3, 18), JustBefore(3, 21),
       DateUTC(3, 21), JustBefore(3, 23), DateUTC(3, 23),
       JustBefore(4, 1), JustBefore(4, 2), DateUTC(4, 2), DateUTC(4, 10),
       JustBefore(4, 18), DateUTC(4, 18) >>
LastInstant == Len(NowInstants)
NowAt(n) == NowInstants[n]
\* new Date()
clock == NowAt(tick)

NoResult ==
    [op |-> "none", req |-> "", cfg |-> "", now |-> 0, ok |-> FALSE, err |-> "",
     delay |-> 0, computed |-> FALSE, date |-> 0, gets |-> 0, puts |-> 0,
     read |-> EmptyTaken, wrote |-> EmptyTaken]

\* the calls of getScheduledDateSeconds that may be in flight together
ProcIds == {1, 2}

\* a call not made yet
IdleProc ==
    [pc |-> "idle", req |-> "", now |-> 0, shared |-> FALSE, taken |-> EmptyTaken,
     computed |-> FALSE, date |-> 0, item |-> NoItem, delay |-> 0, err |-> "",
     lateRead |-> FALSE, putOrder |-> 0]

\* humanNode has not run
NoRun == [ran |-> FALSE]

\* twitterLoader has not been called
NotLoading ==
    [pc |-> "idle", requestCount |-> 0, paginationToken |-> "", allTweets |-> <<>>,
     oneDayAgoUTC |-> 0, requests |-> 0, pages |-> 0, lastHadOlder |-> FALSE,
     lastToken |-> "", threw |-> FALSE]

Init ==
    /\ storeValue = NoItem
    /\ DEFAULT_TAKEN_DATES = EmptyTaken
    /\ tick = 1
    /\ res = NoResult
    /\ assigned = {}
    /\ faults = 0
    /\ aTier = "p1"
    /\ aTaken = <<>>
    /\ procs = [p \in ProcIds |-> IdleProc]
    /\ thread = NoRun
    /\ loader = NotLoading

\* time passes: the clock moves to the next instant at which requests are issued
Tick ==
    /\ tick < LastInstant
    /\ tick' = tick + 1
    /\ res' = NoResult
    /\ UNCHANGED <<storeValue, DEFAULT_TAKEN_DATES, assigned, faults>>
    /\ UNCHANGED allocVars
    /\ UNCHANGED raceVars
    /\ UNCHANGED nodeVars

\* one call of getScheduledDateSeconds with baseDate = new Date(), run to completion
Call(op, reqName, scheduleDate, cfg) ==
    \E out \in {getScheduledDateSeconds(scheduleDate, cfg, clock)} :
        /\ storeValue' = out.item
        /\ DEFAULT_TAKEN_DATES' = out.dflt
        /\ res' = [op |-> op, req |-> reqName, cfg |-> cfg, now |-> clock, ok |-> out.ok,
                   err |-> out.err, delay |-> out.delay, computed |-> out.computed,
                   date |-> out.date, gets |-> out.gets, puts |-> out.puts,
                   read |-> EmptyTaken, wrote |-> EmptyTaken]
        /\ assigned' = IF op = "tier" /\ out.ok
                       THEN assigned \cup {[tier |-> reqName, date |-> out.date]}
                       ELSE assigned
        /\ UNCHANGED tick
        /\ UNCHANGED allocVars
        /\ UNCHANGED raceVars
        /\ UNCHANGED nodeVars

\* the number of slots in a TakenScheduleDates value
TakenCount(takenDates) == Len(takenDates.p1) + Len(takenDates.p2) + Len(takenDates.p3)

\* a call made with a missing or failing store counts against MaxFaults
UsesStore(cfg) ==
    /\ cfg # "ok" => faults < MaxFaults
    /\ faults' = IF cfg # "ok" THEN faults + 1 ELSE faults

\* a tier request with a store that works
RequestTier(priority) ==
    /\ Cardinality(assigned) < MaxAssigned
    /\ Call("tier", priority, Token(priority), "ok")
    /\ UNCHANGED faults

\* a tier request with a store that may be missing or fail
RequestTierWithStore(priority, cfg) ==
    /\ Cardinality(assigned) < MaxAssignedWithFaults
    /\ TakenCount(DEFAULT_TAKEN_DATES) < MaxAssignedWithFaults
    /\ UsesStore(cfg)
    /\ Call("tier", priority, Token(priority), cfg)

\* an explicit date or an unusable value: the store of the call is never used
RequestExplicit(delta, cfg) ==
    /\ Call("explicit", "date", DateValue(clock + delta), cfg)
    /\ UNCHANGED faults

RequestInvalid(scheduleDate, cfg) ==
    /\ Call("invalid", "other", scheduleDate, cfg)
    /\ UNCHANGED faults

\* a direct call of the exported getTakenScheduleDates
ReadTaken(cfg) ==
    /\ UsesStore(cfg)
    /\ \E got \in {getTakenScheduleDates(cfg)} :
           res' = [NoResult EXCEPT !.op = "read", !.cfg = cfg, !.now = clock,
                       !.ok = got.ok, !.err = got.err, !.read = got.taken,
                       !.gets = IF cfg = "none" THEN 0 ELSE 1]
    /\ UNCHANGED <<storeValue, DEFAULT_TAKEN_DATES, tick, assigned>>
    /\ UNCHANGED allocVars
    /\ UNCHANGED raceVars
    /\ UNCHANGED nodeVars

\* tier requests with a store that works, one after the other, each run to completion
Next ==
    \/ Tick
    \/ \E priority \in Priorities : RequestTier(priority)

Spec == Init /\ [][Next]_vars

\* tier requests and reads with a store that may be missing or fail
NextFaults ==
    \/ Tick
    \/ \E priority \in Priorities, cfg \in StoreConfigs : RequestTierWithStore(priority, cfg)
    \/ \E cfg \in StoreConfigs \ {"putThrows"} : ReadTaken(cfg)

SpecFaults == Init /\ [][NextFaults]_vars

\* requests with an explicit date or an unusable value, among p1 requests
NextDates ==
    \/ Tick
    \/ RequestTier("p1")
    \/ \E delta \in ExplicitDeltas, cfg \in {"ok", "none"} : RequestExplicit(delta, cfg)
    \/ \E scheduleDate \in {InvalidDate, Token("p4")}, cfg \in {"ok", "none"} :
           RequestInvalid(scheduleDate, cfg)

SpecDates == Init /\ [][NextDates]_vars

----------------------------------------------------------------------------
(* The allocator fed with its own results *)

\* the first slot of a tier: the allocator on an empty sequence, at instant n
AllocStart(priority, n) ==
    /\ aTaken = <<>>
    /\ \E first \in {getNextAvailableDate(NormalizeCurrentTime(priority, NowAt(n)),
                                          priority, EmptyTaken)} :
          /\ first.ok
          /\ aTaken' = <<first.date>>
    /\ aTier' = priority
    /\ UNCHANGED <<storeValue, DEFAULT_TAKEN_DATES, tick, res, assigned, faults>>
    /\ UNCHANGED raceVars
    /\ UNCHANGED nodeVars

\* the result becomes the new last element of the sequence
AllocFeed ==
    /\ aTaken # <<>>
    /\ Len(aTaken) < MaxFeed
    /\ \E next \in {getNextAvailableDate(aTaken[Len(aTaken)], aTier,
                                         [EmptyTaken EXCEPT ![aTier] = aTaken])} :
          /\ next.ok
          /\ aTaken' = Append(aTaken, next.date)
    /\ UNCHANGED <<storeValue, DEFAULT_TAKEN_DATES, tick, res, assigned, faults, aTier>>
    /\ UNCHANGED raceVars
    /\ UNCHANGED nodeVars

NextAlloc ==
    \/ \E priority \in Priorities, n \in 1..LastInstant : AllocStart(priority, n)
    \/ AllocFeed

SpecAlloc == Init /\ [][NextAlloc]_vars

----------------------------------------------------------------------------
(* The allocator on any last taken date *)

\* last taken dates: every hour of the days 0..MaxAnchorDay, on the hour and half an
\* hour past it
Anchors ==
    { DateUTC(day, hour) + off :
          day \in 0..MaxAnchorDay, hour \in 0..23, off \in {0, 1800 * MS_PER_SECOND} }

\* getNextAvailableDate for p3 with the anchor as the only, hence last, taken date
ScanFrom(anchor) ==
    /\ \E out \in {getNextAvailableDate(anchor, "p3",
                                        [EmptyTaken EXCEPT !.p3 = <<anchor>>])} :
          res' = [NoResult EXCEPT !.op = "scan", !.req = "p3", !.now = anchor,
                                  !.ok = out.ok, !.err = out.err, !.date = out.date,
                                  !.computed = out.ok]
    /\ UNCHANGED <<storeValue, DEFAULT_TAKEN_DATES, tick, assigned, faults>>
    /\ UNCHANGED allocVars
    /\ UNCHANGED raceVars
    /\ UNCHANGED nodeVars

NextScan == \E anchor \in Anchors : ScanFrom(anchor)

SpecScan == Init /\ [][NextScan]_vars

----------------------------------------------------------------------------
(* Calls in flight together *)

\* getScheduledDateSeconds is async: a tier request runs from the call to the
\* resolution of store.get, then without interruption from there to the call of
\* store.put (normalisation, getNextAvailableDate, validateScheduleDate, the push and
\* the serialisation), and its put reaches the store later.  Steps of other requests
\* come in between.

InFlight(p) == procs[p].pc \in {"got", "putting"}
Finished(p) == procs[p].pc \in {"done", "failed"}

\* the call and its "await getTakenScheduleDates(config)", with a store that works;
\* the second call of a run is made after the first
RaceGet(p, priority) ==
    /\ procs[p].pc = "idle"
    /\ \A q \in ProcIds : q < p => procs[q].pc # "idle"
    /\ \E got \in {getTakenScheduleDates("ok")} :
          procs' = [procs EXCEPT ![p] =
                       [@ EXCEPT !.pc = "got", !.req = priority, !.now = clock,
                                 !.shared = got.shared, !.taken = got.taken,
                                 !.lateRead = \E q \in ProcIds : procs[q].pc = "done"]]
    /\ UNCHANGED <<storeValue, DEFAULT_TAKEN_DATES, tick, res, assigned, faults>>
    /\ UNCHANGED allocVars
    /\ UNCHANGED nodeVars

\* from the resolution of the read to the call of store.put
RaceCompute(p) ==
    /\ procs[p].pc = "got"
    /\ LET priority == procs[p].req
           baseDate == procs[p].now
           \* the object the read returned: DEFAULT_TAKEN_DATES itself, or its own
           takenScheduleDates ==
               IF procs[p].shared THEN DEFAULT_TAKEN_DATES ELSE procs[p].taken
           currentTime == NormalizeCurrentTime(priority, baseDate)
       IN  \E nextAvailDate \in {getNextAvailableDate(currentTime, priority,
                                                      takenScheduleDates)} :
             IF ~nextAvailDate.ok
             THEN /\ procs' = [procs EXCEPT ![p] =
                                  [@ EXCEPT !.pc = "failed", !.err = nextAvailDate.err]]
                  /\ UNCHANGED DEFAULT_TAKEN_DATES
             ELSE IF ~validateScheduleDate(nextAvailDate.date, baseDate)
             THEN /\ procs' = [procs EXCEPT ![p] =
                                  [@ EXCEPT !.pc = "failed", !.computed = TRUE,
                                            !.date = nextAvailDate.date,
                                            !.err = "Schedule date must be in the future"]]
                  /\ UNCHANGED DEFAULT_TAKEN_DATES
             ELSE LET pushed == [takenScheduleDates EXCEPT
                                    ![priority] = Append(@, nextAvailDate.date)]
                  IN  /\ procs' = [procs EXCEPT ![p] =
                                      [@ EXCEPT !.pc = "putting", !.computed = TRUE,
                                                !.date = nextAvailDate.date,
                                                !.taken = pushed,
                                                !.item = putTakenScheduleDates(pushed, "ok").item]]
                      /\ DEFAULT_TAKEN_DATES' =
                             IF procs[p].shared THEN pushed ELSE DEFAULT_TAKEN_DATES
    /\ UNCHANGED <<storeValue, tick, res, assigned, faults>>
    /\ UNCHANGED allocVars
    /\ UNCHANGED nodeVars

\* store.put takes effect and the call returns
RacePut(p) ==
    /\ procs[p].pc = "putting"
    /\ storeValue' = procs[p].item
    /\ procs' = [procs EXCEPT ![p] =
                    [@ EXCEPT !.pc = "done",
                              !.delay = getAfterSeconds(procs[p].date, procs[p].now),
                              !.putOrder = 1 + Cardinality({q \in ProcIds : procs[q].pc = "done"})]]
    /\ UNCHANGED <<DEFAULT_TAKEN_DATES, tick, res, assigned, faults>>
    /\ UNCHANGED allocVars
    /\ UNCHANGED nodeVars

\* time passes until the first call of a burst of calls is made; the burst is over
\* before the clock reaches the next instant
TickIdle ==
    /\ \A p \in ProcIds : procs[p].pc = "idle"
    /\ res = NoResult
    /\ Tick

\* a tier request made, and completed, while no other call is in flight
RequestTierAlone(priority) ==
    /\ \A p \in ProcIds : ~InFlight(p)
    /\ Cardinality(assigned) < MaxAssignedAroundRace
    /\ Call("tier", priority, Token(priority), "ok")
    /\ UNCHANGED faults

NextRace ==
    \/ TickIdle
    \/ \E priority \in Priorities : RequestTierAlone(priority)
    \/ \E p \in ProcIds, priority \in Priorities : RaceGet(p, priority)
    \/ \E p \in ProcIds : RaceCompute(p)
    \/ \E p \in ProcIds : RacePut(p)

SpecRace == Init /\ [][NextRace]_vars

----------------------------------------------------------------------------
(* Writing the taken dates and reading them back *)

\* the Dates of the values written: two instants with minutes, seconds and
\* milliseconds, and Invalid Date
RoundTripDates ==
    {DateValue(DateUTC(2, 16) + 1),
     DateValue(DateUTC(9, 23) + 59 * 60 * MS_PER_SECOND + 59 * MS_PER_SECOND + 999),
     InvalidDate}

\* the sequences of at most n of these Dates
RECURSIVE DateSeqs(_)
DateSeqs(n) ==
    IF n = 0 THEN {<<>>}
    ELSE DateSeqs(n - 1)
             \cup {Append(seq, d) : seq \in {q \in DateSeqs(n - 1) : Len(q) = n - 1},
                                    d \in RoundTripDates}

\* getTime() of each Date of a sequence
RECURSIVE Times(_)
Times(dates) ==
    IF dates = <<>> THEN <<>> ELSE <<Head(dates).time>> \o Times(Tail(dates))

AllValid(dates) == \A i \in 1..Len(dates) : isValid(dates[i])

\* putTakenScheduleDates(x, config) and then getTakenScheduleDates(config), with a
\* store that works; toISOString throws a RangeError on an Invalid Date
RoundTrip(x) ==
    /\ res = NoResult /\ ~storeValue.written
    /\ IF AllValid(x.p1) /\ AllValid(x.p2) /\ AllValid(x.p3)
       THEN \E put \in {putTakenScheduleDates(
                            [p1 |-> Times(x.p1), p2 |-> Times(x.p2), p3 |-> Times(x.p3)],
                            "ok")} :
                /\ storeValue' = put.item
                /\ res' = [NoResult EXCEPT !.op = "roundtrip", !.cfg = "ok", !.ok = TRUE,
                               !.wrote = x, !.puts = 1, !.gets = 1,
                               !.read = getTakenScheduleDates("ok").taken']
       ELSE /\ storeValue' = storeValue
            /\ res' = [NoResult EXCEPT !.op = "roundtrip", !.cfg = "ok", !.ok = FALSE,
                           !.err = "RangeError: Invalid time value", !.wrote = x]
    /\ UNCHANGED <<DEFAULT_TAKEN_DATES, tick, assigned, faults>>
    /\ UNCHANGED allocVars
    /\ UNCHANGED raceVars
    /\ UNCHANGED nodeVars

NextRoundTrip ==
    /\ res = NoResult
    /\ \E seqs \in {DateSeqs(MaxRoundTripLen)} :
           \E x \in [p1 : seqs, p2 : seqs, p3 : seqs] : RoundTrip(x)

SpecRoundTrip == Init /\ [][NextRoundTrip]_vars

----------------------------------------------------------------------------
(* The loader of the tweets of a list *)

maxRequests == 5

\* meta.next_token absent
NoToken == ""

\* a tweet's created_at: an ISO-8601 string, or absent
NoCreatedAt == [present |-> FALSE, str |-> toISOString(0)]
CreatedAt(t) == [present |-> TRUE, str |-> toISOString(t)]

\* the tweet at a position of a page
Tweet(page, index, created_at) ==
    [page |-> page, index |-> index, created_at |-> created_at]

\* createdAtAfter(createdAt, reference): the tweet was created after the reference
createdAtAfter(createdAt, reference) == newDate(createdAt.str) > reference

\* new Date(new Date(new Date().getTime() - 24 * 60 * 60 * 1000).toISOString())
OneDayAgoUTC(now) == newDate(toISOString(now - 24 * MS_PER_HOUR))

\* the result of client.getListTweets
Throws401 == [throws |-> TRUE, hasData |-> FALSE, data |-> <<>>, next_token |-> NoToken]
ListTweets(data, next_token) ==
    [throws |-> FALSE, hasData |-> TRUE, data |-> data, next_token |-> next_token]
NoData == [throws |-> FALSE, hasData |-> FALSE, data |-> <<>>, next_token |-> NoToken]

\* fetchListTweetsWrapper: the paginator, or undefined when the call throws
fetchListTweetsWrapper(apiResult) ==
    IF apiResult.throws
    THEN [undefined |-> TRUE, hasData |-> FALSE, data |-> <<>>, next_token |-> NoToken]
    ELSE [undefined |-> FALSE, hasData |-> apiResult.hasData, data |-> apiResult.data,
          next_token |-> apiResult.next_token]

\* the while condition with one more turn
ContinueLoop_OneMore(requestCount) == requestCount <= maxRequests

\* while (requestCount < maxRequests)
ContinueLoop(requestCount) == requestCount < maxRequests

\* the filter that keeps a tweet whatever its created_at
KeepTweet_Always(tweet, oneDayAgoUTC) == TRUE

\* tweet.created_at && createdAtAfter(tweet.created_at, oneDayAgoUTC)
KeepTweet(tweet, oneDayAgoUTC) ==
    tweet.created_at.present /\ createdAtAfter(tweet.created_at, oneDayAgoUTC)

\* !paginationToken || data.some((tweet) => tweet.created_at && !createdAtAfter(...))
StopPaginating(paginationToken, data, oneDayAgoUTC) ==
    \/ paginationToken = NoToken
    \/ \E i \in 1..Len(data) :
           data[i].created_at.present
               /\ ~createdAtAfter(data[i].created_at, oneDayAgoUTC)

\* the top of the while loop: either the next request is issued or allTweets is returned
LoopTop(l) ==
    IF ContinueLoop(l.requestCount)
    THEN [l EXCEPT !.pc = "awaitFetch", !.requestCount = @ + 1, !.requests = @ + 1]
    ELSE [l EXCEPT !.pc = "returned"]

\* a tweet created before the instant 24 hours before the call
OlderThanOneDay(tweet, oneDayAgoUTC) ==
    tweet.created_at.present /\ newDate(tweet.created_at.str) < oneDayAgoUTC

\* the body of the loop that returns nothing when the fetch has failed
LoopBody_DropsTweetsOnError(l, apiResult) ==
    LET tweets == fetchListTweetsWrapper(apiResult)
        filteredTweets == SelectSeq(tweets.data,
                                    LAMBDA tweet : KeepTweet(tweet, l.oneDayAgoUTC))
        seen == [l EXCEPT !.pages = @ + 1,
                          !.threw = apiResult.throws,
                          !.lastToken = apiResult.next_token,
                          !.lastHadOlder =
                              \E i \in 1..Len(apiResult.data) :
                                  OlderThanOneDay(apiResult.data[i], l.oneDayAgoUTC)]
    IN  IF tweets.undefined
        THEN [seen EXCEPT !.pc = "returned", !.allTweets = <<>>]
        ELSE IF ~tweets.hasData \/ Len(tweets.data) = 0
        THEN [seen EXCEPT !.pc = "returned"]
        ELSE LET next == [seen EXCEPT !.allTweets = @ \o filteredTweets,
                                      !.paginationToken = tweets.next_token]
             IN  IF StopPaginating(next.paginationToken, tweets.data, l.oneDayAgoUTC)
                 THEN [next EXCEPT !.pc = "returned"]
                 ELSE LoopTop(next)

\* the body of the loop from the settling of the fetch to the next fetch or the return
LoopBody(l, apiResult) ==
    LET tweets == fetchListTweetsWrapper(apiResult)
        filteredTweets == SelectSeq(tweets.data,
                                    LAMBDA tweet : KeepTweet(tweet, l.oneDayAgoUTC))
        seen == [l EXCEPT !.pages = @ + 1,
                          !.threw = apiResult.throws,
                          !.lastToken = apiResult.next_token,
                          !.lastHadOlder =
                              \E i \in 1..Len(apiResult.data) :
                                  OlderThanOneDay(apiResult.data[i], l.oneDayAgoUTC)]
    IN  IF tweets.undefined \/ ~tweets.hasData \/ Len(tweets.data) = 0
        THEN [seen EXCEPT !.pc = "returned"]
        ELSE LET next == [seen EXCEPT !.allTweets = @ \o filteredTweets,
                                      !.paginationToken = tweets.next_token]
             IN  IF StopPaginating(next.paginationToken, tweets.data, l.oneDayAgoUTC)
                 THEN [next EXCEPT !.pc = "returned"]
                 ELSE LoopTop(next)

\* the values of created_at: absent, a millisecond before the instant 24 hours before
\* the call, that instant, and a millisecond after it
CreatedAts(oneDayAgoUTC) ==
    {NoCreatedAt, CreatedAt(oneDayAgoUTC - 1), CreatedAt(oneDayAgoUTC),
     CreatedAt(oneDayAgoUTC + 1)}

\* the pages of at most n tweets that the list can return as page number page
RECURSIVE TweetPages(_, _, _)
TweetPages(n, page, oneDayAgoUTC) ==
    IF n = 0 THEN {<<>>}
    ELSE TweetPages(n - 1, page, oneDayAgoUTC)
             \cup {Append(data, Tweet(page, n, created_at)) :
                       data \in {d \in TweetPages(n - 1, page, oneDayAgoUTC) :
                                     Len(d) = n - 1},
                       created_at \in CreatedAts(oneDayAgoUTC)}

\* what client.getListTweets can do when asked for page number page, with pages of at
\* most n tweets
ApiResults(n, page, oneDayAgoUTC) ==
    {Throws401, NoData}
        \cup {ListTweets(data, next_token) :
                  data \in TweetPages(n, page, oneDayAgoUTC),
                  next_token \in {NoToken, "next"}}

\* twitterLoader() is called: everything up to the first await
CallTwitterLoader ==
    /\ loader.pc = "idle"
    /\ loader' = LoopTop([NotLoading EXCEPT !.oneDayAgoUTC = OneDayAgoUTC(clock)])
    /\ UNCHANGED schedVars
    /\ UNCHANGED thread

\* the awaited fetch settles and the loader runs to its next await or to its return
PageArrives(apiResult) ==
    /\ loader.pc = "awaitFetch"
    /\ loader' = LoopBody(loader, apiResult)
    /\ UNCHANGED schedVars
    /\ UNCHANGED thread

NextLoader ==
    \/ CallTwitterLoader
    \/ /\ loader.pc = "awaitFetch"
       /\ \E apiResult \in ApiResults(MaxPageLen, loader.requestCount,
                                       loader.oneDayAgoUTC) :
              PageArrives(apiResult)

SpecLoader == Init /\ [][NextLoader]_vars

\* the loader with shorter pages
NextLoaderLive ==
    \/ CallTwitterLoader
    \/ /\ loader.pc = "awaitFetch"
       /\ \E apiResult \in ApiResults(MaxPageLenLive, loader.requestCount,
                                       loader.oneDayAgoUTC) :
              PageArrives(apiResult)

\* every fetch that is awaited settles
SpecLoaderLive == Init /\ [][NextLoaderLive]_vars /\ WF_vars(NextLoaderLive)

----------------------------------------------------------------------------
(* The human-review node of the generate-post graph *)

\* END of @langchain/langgraph
END == "__end__"

\* undefined, where a DateType value is expected
Undefined == [kind |-> "undefined", time |-> 0, token |-> ""]

\* a date or priority string: its text, or "date" and the instant it names
Str(text, time) == [text |-> text, time |-> time]

\* state.image and the result of processImageInput: undefined, "remove", or an image
NoImage == [kind |-> "undefined", imageUrl |-> ""]
RemoveImage == [kind |-> "remove", imageUrl |-> ""]
Image(url) == [kind |-> "image", imageUrl |-> url]

\* formatInTimeZone(date, "America/Los_Angeles", "MM/dd/yyyy hh:mm a z"): the string
\* names the instant to the minute
formatInTimeZone(date) ==
    Str("date", (date.time \div (60 * MS_PER_SECOND)) * (60 * MS_PER_SECOND))

\* ../../../../utils/date.js
parseDateResponse(str) ==
    CASE str.text \in {"p1", "P1"} -> Token("p1")
      [] str.text \in {"p2", "P2"} -> Token("p2")
      [] str.text \in {"p3", "P3"} -> Token("p3")
      [] str.text = "date" -> DateValue(str.time)
      [] OTHER -> Undefined
getNextSaturdayDate == DateValue(DateUTC(2, 16))

\* what humanNode returns: the keys of the object and their values
Returns(keys, next, scheduleDate, image, userResponse) ==
    [threw |-> FALSE, err |-> "", keys |-> keys, next |-> next,
     scheduleDate |-> scheduleDate, image |-> image, userResponse |-> userResponse]
Throws(err) ==
    [threw |-> TRUE, err |-> err, keys |-> {}, next |-> "",
     scheduleDate |-> Undefined, image |-> NoImage, userResponse |-> ""]

\* response.args: undefined, a string, or an object with or without the key "args"
NoArgs == [kind |-> "undefined", str |-> "", hasArgs |-> FALSE, post |-> "", date |-> Str("", 0)]
StringArgs(str) == [NoArgs EXCEPT !.kind = "string", !.str = str]
ObjectArgs(hasArgs, post, date) ==
    [NoArgs EXCEPT !.kind = "object", !.hasArgs = hasArgs, !.post = post, !.date = date]

\* !response.args
ArgsFalsy(args) == args.kind = "undefined" \/ (args.kind = "string" /\ args.str = "")

\* the string shown as the current date or priority
defaultDateString(state) ==
    LET defaultDate == IF state.scheduleDate.kind # "undefined"
                       THEN state.scheduleDate ELSE getNextSaturdayDate
    IN  IF state.scheduleDate.kind = "token"
             /\ state.scheduleDate.token \in {"p1", "p2", "p3"}
        THEN Str(state.scheduleDate.token, 0)
        ELSE formatInTimeZone(defaultDate)

\* castArgs.date || defaultDateString
postDateString(state, args) ==
    IF args.date.text # "" THEN args.date ELSE defaultDateString(state)

\* the successor chosen for a response, from the route the router answered
nextAfterResponse_Swapped(route) ==
    IF route = "rewrite_post" THEN "updateScheduleDate" ELSE "rewritePost"

nextAfterResponse(route) ==
    IF route = "rewrite_post" THEN "rewritePost" ELSE "updateScheduleDate"

\* humanNode that checks response.args before it looks for "ignore"
humanNode_ArgsBeforeIgnore(state, response, route, processedImage) ==
    IF state.post = ""
    THEN Throws("No post found")
    ELSE IF response.type \notin {"edit", "ignore", "accept", "response"}
    THEN Throws("Unexpected response type")
    ELSE IF ArgsFalsy(response.args)
    THEN Throws("Unexpected response args")
    ELSE IF response.type = "ignore"
    THEN Returns({"next"}, END, Undefined, NoImage, "")
    ELSE IF response.type = "response"
    THEN IF response.args.kind # "string"
         THEN Throws("Response args must be a string.")
         ELSE Returns({"userResponse", "next"}, nextAfterResponse(route), Undefined,
                      NoImage, response.args.str)
    ELSE IF response.args.kind # "object"
    THEN Throws("Unexpected response args type")
    ELSE IF ~response.args.hasArgs
    THEN Throws("Unexpected response args value")
    ELSE IF response.args.post = ""
    THEN Throws("Unexpected response args value")
    ELSE LET postDate == parseDateResponse(postDateString(state, response.args))
             imageState == IF processedImage.kind = "image" THEN processedImage
                           ELSE IF processedImage.kind = "remove" THEN NoImage
                           ELSE state.image
         IN  IF postDate.kind = "undefined"
             THEN Throws("Invalid date provided")
             ELSE Returns({"next", "scheduleDate", "image"}, "schedulePost", postDate,
                          imageState, "")

\* humanNode once interrupt() has handed it the response; route is what routeResponse
\* answers and processedImage what processImageInput returns, when they are called
humanNode(state, response, route, processedImage) ==
    IF state.post = ""
    THEN Throws("No post found")
    ELSE IF response.type \notin {"edit", "ignore", "accept", "response"}
    THEN Throws("Unexpected response type")
    ELSE IF response.type = "ignore"
    THEN Returns({"next"}, END, Undefined, NoImage, "")
    ELSE IF ArgsFalsy(response.args)
    THEN Throws("Unexpected response args")
    ELSE IF response.type = "response"
    THEN IF response.args.kind # "string"
         THEN Throws("Response args must be a string.")
         ELSE Returns({"userResponse", "next"}, nextAfterResponse(route), Undefined,
                      NoImage, response.args.str)
    ELSE IF response.args.kind # "object"
    THEN Throws("Unexpected response args type")
    ELSE IF ~response.args.hasArgs
    THEN Throws("Unexpected response args value")
    ELSE IF response.args.post = ""
    THEN Throws("Unexpected response args value")
    ELSE LET postDate == parseDateResponse(postDateString(state, response.args))
             imageState == IF processedImage.kind = "image" THEN processedImage
                           ELSE IF processedImage.kind = "remove" THEN NoImage
                           ELSE state.image
         IN  IF postDate.kind = "undefined"
             THEN Throws("Invalid date provided")
             ELSE Returns({"next", "scheduleDate", "image"}, "schedulePost", postDate,
                          imageState, "")

\* the states, responses, routes and images humanNode is run on
ThreadStates ==
    [post : {"", "post"},
     scheduleDate : {Undefined, Token("p1"), DateValue(DateUTC(9, 16) + 30500)},
     image : {NoImage, Image("old")}]
DateStrings == {Str("", 0), Str("P2", 0), Str("date", DateUTC(9, 17)), Str("tomorrow", 0)}
ArgsValues ==
    {NoArgs, StringArgs(""), StringArgs("text")}
        \cup {ObjectArgs(hasArgs, post, date) :
                  hasArgs \in BOOLEAN, post \in {"", "edited"}, date \in DateStrings}
Responses == [type : {"edit", "ignore", "accept", "response", "reject"}, args : ArgsValues]
Routes == {"rewrite_post", "update_date"}
ProcessedImages == {NoImage, RemoveImage, Image("new")}

\* one run of humanNode, on a thread it has not run on yet
HumanNode(state, response, route, processedImage) ==
    /\ ~thread.ran
    /\ thread' = [ran |-> TRUE, state |-> state, response |-> response, route |-> route,
                  processedImage |-> processedImage,
                  out |-> humanNode(state, response, route, processedImage)]
    /\ UNCHANGED schedVars
    /\ UNCHANGED loader

NextHuman ==
    \E state \in ThreadStates, response \in Responses, route \in Routes,
       processedImage \in ProcessedImages :
        HumanNode(state, response, route, processedImage)

SpecHuman == Init /\ [][NextHuman]_vars

----------------------------------------------------------------------------
(* Properties *)

\* the Dates persisted for a tier, as getTakenScheduleDates would parse them
PersistedIn(item, priority) == MapSeq(newDate, item.taken_dates[priority])
Persisted(priority) == PersistedIn(storeValue, priority)

\* d is a slot of the tier's rule table: weekday and hour in the table, nothing
\* below the hour
IsLegalSlot(priority, d) ==
    /\ d % MS_PER_HOUR = 0
    /\ \E i \in 1..Len(AllowedTable(priority)) :
          /\ AllowedTable(priority)[i].day = getUTCDay(d)
          /\ AllowedTable(priority)[i].hour = getUTCHours(d)

HoursPerWeek == 7 * 24

\* the earliest slot of the tier's table at or after the whole hour d
FirstLegalFrom(priority, d) ==
    LET k == CHOOSE k \in 0..HoursPerWeek :
                 /\ IsLegalSlot(priority, d + k * MS_PER_HOUR)
                 /\ \A j \in 0..(k - 1) : ~IsLegalSlot(priority, d + j * MS_PER_HOUR)
    IN  d + k * MS_PER_HOUR

\* the earliest slot of the tier's table strictly after d
NextLegalAfter(priority, d) ==
    FirstLegalFrom(priority, (d \div MS_PER_HOUR) * MS_PER_HOUR + MS_PER_HOUR)

\* the earliest slot of the tier's table on or after d
EarliestOnOrAfter(priority, d) ==
    IF d % MS_PER_HOUR = 0
    THEN FirstLegalFrom(priority, d)
    ELSE NextLegalAfter(priority, d)

\* the hours the tier's table allows on a weekday
LegalHours(priority, day) ==
    { AllowedTable(priority)[i].hour :
          i \in { j \in 1..Len(AllowedTable(priority)) : AllowedTable(priority)[j].day = day } }

\* C1: no two successful tier requests are assigned the same timestamp, whatever
\* their tiers
C1_NoTwoRequestsShareATimestamp ==
    \A a, b \in assigned : a # b => a.date # b.date

\* C2: with a store that never fails, a successful request for a tier returns a
\* slot that is not in the persisted sequence of that tier and was not handed out
\* for that tier before
C2_SlotNotTakenBefore ==
    [][ (res'.op = "tier" /\ res'.ok)
          => /\ \A i \in 1..Len(Persisted(res'.req)) : Persisted(res'.req)[i] # res'.date
             /\ [tier |-> res'.req, date |-> res'.date] \notin assigned ]_vars

C2_Witness ==
    /\ res.op = "tier" /\ res.ok
    /\ Len(Persisted(res.req)) >= 3

\* C3: the sequence obtained by feeding the allocator its own results is strictly
\* increasing in time
C3_StrictlyIncreasing ==
    \A i \in 1..(Len(aTaken) - 1) : aTaken[i] < aTaken[i + 1]

C3_Witness ==
    /\ Len(aTaken) >= 11
    /\ aTaken[Len(aTaken)] - aTaken[1] >= 7 * MS_PER_DAY

\* C4: every slot returned by a successful tier request, and every timestamp
\* persisted for a tier, is a slot of that tier's rule table with zero minutes,
\* seconds and milliseconds
C4_Legality ==
    /\ \A priority \in Priorities : \A i \in 1..Len(Persisted(priority)) :
           IsLegalSlot(priority, Persisted(priority)[i])
    /\ (res.op = "tier" /\ res.ok) => IsLegalSlot(res.req, res.date)

C4_Witness ==
    /\ res.op = "tier" /\ res.ok
    /\ Len(Persisted("p1")) >= 1 /\ Len(Persisted("p2")) >= 1 /\ Len(Persisted("p3")) >= 2

\* C5: a tier request that finds the taken sequence of its tier empty returns the
\* earliest slot of the tier's table on or after now
C5_ColdStartReturnsEarliestSlot ==
    [][ (/\ res'.op = "tier"
         /\ res'.cfg = "ok"
         /\ Len(getTakenScheduleDates("ok").taken[res'.req]) = 0)
          => (res'.ok /\ res'.date = EarliestOnOrAfter(res'.req, res'.now)) ]_vars

\* C6: after a legal slot of the tier the allocator returns the earliest slot of
\* the tier's table that is strictly later
C6_NextLegalSlot ==
    \A i \in 1..(Len(aTaken) - 1) :
        IsLegalSlot(aTier, aTaken[i]) => aTaken[i + 1] = NextLegalAfter(aTier, aTaken[i])

C6_Witness ==
    /\ Len(aTaken) >= 12
    /\ \A i \in 1..Len(aTaken) : IsLegalSlot(aTier, aTaken[i])

\* C7: for p1 and p2, after a slot whose hour is below the last legal hour of its
\* weekday the allocator returns the slot one hour later on the same day
C7_Density ==
    \A i \in 1..(Len(aTaken) - 1) :
        (/\ aTier \in {"p1", "p2"}
         /\ \E h \in LegalHours(aTier, getUTCDay(aTaken[i])) : getUTCHours(aTaken[i]) < h)
          => /\ aTaken[i + 1] = aTaken[i] + MS_PER_HOUR
             /\ getUTCYMD(aTaken[i + 1]) = getUTCYMD(aTaken[i])

C7_Witness ==
    /\ aTier = "p2"
    /\ Len(aTaken) >= 3
    /\ isSaturday(aTaken[1])
    /\ aTaken[3] = aTaken[1] + 2 * MS_PER_HOUR

\* C8: a request with an explicit date fails for every date at or before now and
\* returns only for dates strictly after now
C8_ExplicitDateMustBeAfterNow ==
    res.op = "explicit" => (res.ok <=> res.date > res.now)

\* C9: a tier request returns, and persists its candidate, only when the candidate
\* is strictly after now and the delay is positive; a candidate that is not after
\* now makes the request fail and leaves the taken sequences as they were
C9_ResultValidation ==
    [][ (res'.op = "tier" /\ res'.computed)
          => /\ res'.ok => (res'.date > res'.now /\ res'.delay > 0)
             /\ res'.ok => PersistedIn(storeValue', res'.req) =
                              Append(getTakenScheduleDates("ok").taken[res'.req], res'.date)
             /\ res'.date <= res'.now
                  => (~res'.ok /\ storeValue' = storeValue
                               /\ DEFAULT_TAKEN_DATES' = DEFAULT_TAKEN_DATES) ]_vars

C9_Witness ==
    /\ res.op = "tier" /\ res.computed /\ ~res.ok
    /\ res.cfg = "ok"
    /\ res.date <= res.now
    /\ storeValue.written

\* C10: getTakenScheduleDates on a store whose key was never written returns empty
\* sequences for p1, p2 and p3 and does not fail
C10_EmptyStoreReadsEmpty ==
    (res.op = "read" /\ res.cfg = "ok" /\ ~storeValue.written)
        => (res.ok /\ res.read = EmptyTaken)

\* C11 (as stated): every tier request calls store.get exactly once, and store.put
\* exactly once if it succeeds and not at all if it fails; a request whose slot
\* fails the future-ness validation leaves the persisted item unchanged
C11_OneReadOneWritePerTierRequest ==
    [][ res'.op = "tier"
          => /\ res'.gets = 1
             /\ res'.puts = (IF res'.ok THEN 1 ELSE 0)
             /\ (res'.computed /\ ~validateScheduleDate(res'.date, res'.now))
                  => storeValue' = storeValue ]_vars

\* C11 (amended): a tier request calls store.get exactly once when a store is
\* configured and never otherwise; it calls store.put at most once, only after the
\* slot has passed the future-ness validation, always when it succeeds, and when it
\* fails only if that put is what failed; a request that fails before the put, as
\* one failing the validation does, leaves the persisted item unchanged
C11_StoreCallsPerTierRequest ==
    [][ res'.op = "tier"
          => /\ res'.gets = (IF res'.cfg = "none" THEN 0 ELSE 1)
             /\ res'.puts \in {0, 1}
             /\ res'.ok => (res'.gets = 1 /\ res'.puts = 1)
             /\ (~res'.ok /\ res'.puts = 1) => res'.err = "store.put"
             /\ res'.puts = 1
                  => (res'.computed /\ validateScheduleDate(res'.date, res'.now))
             /\ (res'.computed /\ ~validateScheduleDate(res'.date, res'.now))
                  => (~res'.ok /\ res'.puts = 0)
             /\ res'.puts = 0 => storeValue' = storeValue ]_vars

C11_Witness ==
    /\ res.op = "tier" /\ res.cfg = "ok" /\ ~res.ok
    /\ res.computed /\ ~validateScheduleDate(res.date, res.now)
    /\ res.gets = 1 /\ res.puts = 0
    /\ TakenCount(storeValue.taken_dates) >= 1

\* C12: a request with an explicit date makes no store.get and no store.put call and
\* leaves the persisted item and the taken sequences unchanged, whether it returns
\* or throws, and also when the config has no store
C12_ExplicitDateIgnoresStore ==
    [][ res'.op = "explicit"
          => /\ res'.gets = 0 /\ res'.puts = 0
             /\ res'.err # "No store provided"
             /\ storeValue' = storeValue
             /\ DEFAULT_TAKEN_DATES' = DEFAULT_TAKEN_DATES ]_vars

C12_Witness ==
    /\ res.op = "explicit" /\ res.cfg = "none" /\ res.ok
    /\ Len(Persisted("p1")) >= 2

\* C13: a request whose value is neither a valid Date nor one of p1, p2, p3 throws
\* the priority error before any store.get or store.put call and leaves the
\* persisted item and the taken sequences unchanged
C13_InvalidRequestFailsBeforeStore ==
    [][ res'.op = "invalid"
          => /\ ~res'.ok
             /\ res'.err = "Invalid priority level"
             /\ res'.gets = 0 /\ res'.puts = 0
             /\ storeValue' = storeValue
             /\ DEFAULT_TAKEN_DATES' = DEFAULT_TAKEN_DATES ]_vars

C13_Witness ==
    /\ res.op = "invalid" /\ ~res.ok
    /\ res.cfg = "ok"
    /\ Len(Persisted("p1")) >= 1

\* C14: a tier request whose store is missing, or whose store.get or store.put
\* throws, throws that error and returns no delay; with the store missing or
\* store.get throwing no slot is computed from an assumed empty sequence; and a
\* slot is returned only once it is the last element persisted for its tier
C14_StoreUnavailable ==
    [][ res'.op = "tier"
          => /\ res'.cfg = "none"
                  => (~res'.ok /\ res'.err = "No store provided" /\ ~res'.computed)
             /\ res'.cfg = "getThrows"
                  => (~res'.ok /\ res'.err = "store.get" /\ ~res'.computed)
             /\ res'.cfg = "putThrows"
                  => (~res'.ok /\ (res'.puts = 1 => res'.err = "store.put"))
             /\ ~res'.ok => res'.delay = 0
             /\ res'.ok
                  => /\ res'.cfg = "ok"
                     /\ PersistedIn(storeValue', res'.req) # <<>>
                     /\ PersistedIn(storeValue', res'.req)
                            [Len(PersistedIn(storeValue', res'.req))] = res'.date ]_vars

C14_Witness ==
    /\ res.op = "tier" /\ ~res.ok
    /\ res.cfg = "putThrows" /\ res.err = "store.put"
    /\ Len(Persisted(res.req)) >= 1

\* both calls have returned a delay, and each of them read the store before either
\* of the two puts took effect
BothReadBeforeEitherWrote ==
    \A p \in ProcIds : procs[p].pc = "done" /\ ~procs[p].lateRead

\* the call whose put took effect first, and the one whose put took effect last
FirstWriter == CHOOSE p \in ProcIds : procs[p].putOrder = 1
LastWriter == CHOOSE p \in ProcIds : procs[p].putOrder = 2

\* how many times d occurs in a sequence
Occurrences(seq, d) == Cardinality({i \in 1..Len(seq) : seq[i] = d})

\* two calls returned the same slot for the same tier and the store holds it once
DoubleBooked ==
    /\ \A p \in ProcIds : procs[p].pc = "done"
    /\ procs[1].req = procs[2].req
    /\ procs[1].date = procs[2].date
    /\ Occurrences(Persisted(procs[1].req), procs[1].date) = 1

\* C15: when two requests for the same tier both read the store before either
\* writes it, both return the same slot and the persisted sequence of the tier
\* holds that slot once
C15_RaceDoubleBooksOneTier ==
    (BothReadBeforeEitherWrote /\ procs[1].req = procs[2].req)
        => /\ procs[1].date = procs[2].date
           /\ Occurrences(Persisted(procs[1].req), procs[1].date) = 1

\* C16: when two requests for different tiers read, read, write and write, the slot
\* of the first writer is absent from the store after the second write, and the next
\* request for the first writer's tier computes that same slot again
C16_LostUpdateAcrossTiers ==
    [][ /\ (/\ procs' # procs
            /\ BothReadBeforeEitherWrote'
            /\ procs'[1].req # procs'[2].req)
          => \A i \in 1..Len(PersistedIn(storeValue', procs'[FirstWriter'].req)) :
                 PersistedIn(storeValue', procs'[FirstWriter'].req)[i]
                     # procs'[FirstWriter'].date
        /\ (/\ procs' = procs
            /\ BothReadBeforeEitherWrote
            /\ procs[1].req # procs[2].req
            /\ Persisted(procs[FirstWriter].req)
                   = PersistedIn(procs[LastWriter].item, procs[FirstWriter].req)
            /\ res'.op = "tier" /\ res'.req = procs[FirstWriter].req /\ res'.computed)
          => res'.date = procs[FirstWriter].date ]_vars

\* a slot returned by a call is missing from the store once the other call has
\* written, and a later request returned it again
LostUpdateRebooked ==
    /\ BothReadBeforeEitherWrote
    /\ procs[1].req # procs[2].req
    /\ res.op = "tier" /\ res.ok
    /\ res.req = procs[FirstWriter].req /\ res.date = procs[FirstWriter].date

\* Saturday 21-23, Sunday 0-1 and 21-23, Monday 0-1
P3WindowSlots ==
    {Slot(6, h) : h \in 21..23} \cup {Slot(0, h) : h \in {0, 1} \cup 21..23}
        \cup {Slot(1, h) : h \in {0, 1}}

\* the slots of a feedback run that lie in the seven days starting at its i-th slot
SlotsOfWeekFrom(i) ==
    {aTaken[k] : k \in {j \in 1..Len(aTaken) :
                          aTaken[i] <= aTaken[j] /\ aTaken[j] < aTaken[i] + 7 * MS_PER_DAY}}

\* the run has gone past the seven days starting at its i-th slot
WeekComplete(i) ==
    \E j \in 1..Len(aTaken) : aTaken[j] >= aTaken[i] + 7 * MS_PER_DAY

\* C17 (as stated): the p3 table has 11 slots a week, and the allocator fed with its
\* own p3 results yields 11 distinct slots in every seven days
C17_P3ElevenSlotsPerWeek ==
    aTier = "p3"
        => \A i \in 1..Len(aTaken) :
               WeekComplete(i) => Cardinality(SlotsOfWeekFrom(i)) = 11

\* C17 (amended): the p3 table has 10 slots a week, Saturday 21-23, Sunday 0-1 and
\* 21-23, Monday 0-1, and the allocator fed with its own p3 results yields 10
\* distinct slots, each of them one of these, in every seven days
C17_P3TenSlotsPerWeek ==
    aTier = "p3"
        => /\ \A i \in 1..Len(aTaken) :
                  Slot(getUTCDay(aTaken[i]), getUTCHours(aTaken[i])) \in P3WindowSlots
           /\ \A i \in 1..Len(aTaken) :
                  WeekComplete(i)
                    => /\ Cardinality(SlotsOfWeekFrom(i)) = 10
                       /\ { Slot(getUTCDay(d), getUTCHours(d)) : d \in SlotsOfWeekFrom(i) }
                              = P3WindowSlots

C17_Witness ==
    /\ aTier = "p3"
    /\ Len(aTaken) >= 11
    /\ aTaken[11] = aTaken[1] + 7 * MS_PER_DAY

\* the wall clock of PST = UTC-8 at the instant d: weekday and minute of the day
PSTDay(d) == getUTCDay(d - 8 * MS_PER_HOUR)
PSTMinuteOfDay(d) == ((d - 8 * MS_PER_HOUR) % MS_PER_DAY) \div (60 * MS_PER_SECOND)

\* the windows of the "Schedule Date" instructions shown to the reviewer
InsideAdvertisedWindow(priority, d) ==
    LET day == PSTDay(d)
        minute == PSTMinuteOfDay(d)
    IN  CASE priority = "p1" ->
                 day \in {6, 0} /\ 8 * 60 <= minute /\ minute <= 10 * 60
          [] priority = "p2" ->
                 \/ day \in {5, 1} /\ 8 * 60 <= minute /\ minute <= 10 * 60
                 \/ day \in {6, 0} /\ 11 * 60 + 30 <= minute /\ minute <= 13 * 60
          [] priority = "p3" ->
                 day \in {6, 0} /\ 13 * 60 <= minute /\ minute <= 17 * 60

\* C18: every slot assigned for a tier lies inside the window the review
\* instructions advertise for that tier, in PST = UTC-8
C18_SlotsInsideAdvertisedWindows ==
    \A a \in assigned : InsideAdvertisedWindow(a.tier, a.date)

\* now is on a legal day of the tier, at or past the cutoff hour of that day
AtOrPastCutoff(priority, now) ==
    CASE priority = "p1" -> isWeekend(now) /\ getUTCHours(now) >= 18
      [] priority = "p2" -> \/ isMondayOrFriday(now) /\ getUTCHours(now) >= 18
                            \/ isWeekend(now) /\ getUTCHours(now) >= 21
      [] priority = "p3" -> isWeekend(now) /\ getUTCHours(now) >= 23

\* the earliest hour the tier's table has on the first day after now's date on which
\* it has any
FirstSlotOfNextLegalDay(priority, now) ==
    LET k == CHOOSE k \in 1..7 :
                 /\ LegalHours(priority, getUTCDay(addDays(now, k))) # {}
                 /\ \A j \in 1..(k - 1) : LegalHours(priority, getUTCDay(addDays(now, j))) = {}
        hours == LegalHours(priority, getUTCDay(addDays(now, k)))
    IN  DateUTC(getUTCYMD(addDays(now, k)), CHOOSE h \in hours : \A g \in hours : h <= g)

C20_P3MondayRule ==
    [][ (/\ res'.op = "tier" /\ res'.req = "p3"
         /\ Len(getTakenScheduleDates("ok").taken.p3) = 0
         /\ isMonday(res'.now))
          => IF getUTCHours(res'.now) <= 1
             THEN /\ res'.ok
                  /\ getUTCYMD(res'.date) = getUTCYMD(res'.now)
                  /\ IsLegalSlot("p3", res'.date)
             ELSE /\ res'.ok
                  /\ res'.date = DateUTC(getUTCYMD(getNextSaturday(res'.now)), 21) ]_vars

\* C21: for every last taken date the p3 branch returns a slot, found on the day of
\* that date or within the 14 days scanned after it; it never throws "Couldn't find
\* a valid p3 slot within 2 weeks!"
C21_P3ScanAlwaysFindsASlot ==
    res.op = "scan"
        => /\ res.ok
           /\ res.err # "Couldn't find a valid p3 slot within 2 weeks!"
           /\ res.date > res.now
           /\ res.date < setUTCHours0(res.now) + 15 * MS_PER_DAY
           /\ IsLegalSlot("p3", res.date)

C21_Witness ==
    /\ res.op = "scan" /\ res.ok
    /\ isMonday(res.now) /\ getUTCHours(res.now) = 1
    /\ isSaturday(res.date)

\* 00:00 UTC of the first Saturday after the date of now
FirstSaturdayAfter(now) ==
    CHOOSE d \in {setUTCHours0(now) + k * MS_PER_DAY : k \in 1..7} : getUTCDay(d) = 6

\* C22: a p1 request that finds the p1 sequence empty on a Monday to Friday returns
\* the delay to 16:00:00 UTC of the first Saturday after now and persists exactly
\* that slot
C22_ColdStartP1OnWeekday ==
    [][ (/\ res'.op = "tier" /\ res'.req = "p1"
         /\ Len(getTakenScheduleDates("ok").taken.p1) = 0
         /\ getUTCDay(res'.now) \in 1..5)
          => /\ res'.ok
             /\ res'.date = FirstSaturdayAfter(res'.now) + 16 * MS_PER_HOUR
             /\ res'.delay = (res'.date - res'.now) \div MS_PER_SECOND
             /\ PersistedIn(storeValue', "p1") = <<res'.date>> ]_vars

\* now = Monday 2024-01-01T10:00:00Z gives 2024-01-06T16:00:00Z
C22_Witness ==
    /\ res.op = "tier" /\ res.ok /\ res.req = "p1"
    /\ res.now = DateUTC(4, 10)
    /\ res.date = DateUTC(9, 16)
    /\ Persisted("p1") = <<DateUTC(9, 16)>>

\* C23: a run of humanNode that gets an 'ignore' response returns next = END and no
\* other key, whatever the response args are
C23_IgnoreEndsTheThread ==
    (thread.ran /\ thread.state.post # "" /\ thread.response.type = "ignore")
        => /\ ~thread.out.threw
           /\ thread.out.keys = {"next"}
           /\ thread.out.next = END
           /\ thread.out.next # "schedulePost"

C23_Witness ==
    /\ thread.ran /\ thread.response.type = "ignore"
    /\ thread.response.args = NoArgs
    /\ thread.out.next = END

\* the response carries a post and a date that parses
AcceptedWithPostAndDate ==
    /\ thread.response.type \in {"accept", "edit"}
    /\ thread.state.post # ""
    /\ thread.response.args.kind = "object" /\ thread.response.args.hasArgs
    /\ thread.response.args.post # ""
    /\ parseDateResponse(postDateString(thread.state, thread.response.args)).kind
           # "undefined"

\* C24: humanNode returns one successor: schedulePost, with scheduleDate the parsed
\* date, for 'accept' or 'edit' with a post and a date that parses; rewritePost or
\* updateScheduleDate for 'response', by the router's answer; and it throws, and
\* never returns schedulePost, when the date does not parse or the type is unknown
C24_OneSuccessorPerOutcome ==
    thread.ran
        => /\ ~thread.out.threw
                => thread.out.next \in {END, "schedulePost", "rewritePost", "updateScheduleDate"}
           /\ AcceptedWithPostAndDate
                => /\ ~thread.out.threw
                   /\ thread.out.next = "schedulePost"
                   /\ thread.out.scheduleDate =
                          parseDateResponse(postDateString(thread.state, thread.response.args))
           /\ (~thread.out.threw /\ thread.response.type = "response")
                => thread.out.next = (IF thread.route = "rewrite_post"
                                      THEN "rewritePost" ELSE "updateScheduleDate")
           /\ (thread.response.type = "response" /\ thread.state.post # ""
                   /\ thread.response.args.kind = "string" /\ thread.response.args.str # "")
                => ~thread.out.threw
           /\ thread.response.type \notin {"edit", "ignore", "accept", "response"}
                => thread.out.threw
           /\ (~thread.out.threw /\ thread.out.next = "schedulePost")
                => AcceptedWithPostAndDate

C24_Witness ==
    /\ thread.ran /\ ~thread.out.threw
    /\ thread.response.type = "edit"
    /\ thread.response.args.date = Str("", 0)
    /\ thread.state.scheduleDate = DateValue(DateUTC(9, 16) + 30500)
    /\ thread.out.next = "schedulePost"
    /\ thread.out.scheduleDate = DateValue(DateUTC(9, 16))

\* C25: a successful tier request changes the persisted state only by appending the
\* returned slot to the end of its tier's sequence; the sequences of the other two
\* tiers stay as they were
C25_AppendOnlyOwnTier ==
    [][ (res'.op = "tier" /\ res'.ok)
          => /\ PersistedIn(storeValue', res'.req) = Append(Persisted(res'.req), res'.date)
             /\ \A other \in Priorities \ {res'.req} :
                    PersistedIn(storeValue', other) = Persisted(other) ]_vars

\* the sequences read back hold the timestamps written, in the same order
ReadBackWhatWasWritten ==
    /\ res.ok
    /\ \A priority \in Priorities : res.read[priority] = Times(res.wrote[priority])

\* C26 (as stated): for every TakenScheduleDates value x, putTakenScheduleDates(x)
\* followed by getTakenScheduleDates() returns for each tier the timestamps of x in
\* the same order
C26_RoundTrip ==
    res.op = "roundtrip" => ReadBackWhatWasWritten

\* C26 (amended): the round trip returns the timestamps of x in the same order for
\* every x whose Dates are all valid; when x holds an Invalid Date the put throws
\* and the store is left as it was
C26_RoundTripOfValidDates ==
    res.op = "roundtrip"
        => IF \A priority \in Priorities : AllValid(res.wrote[priority])
           THEN ReadBackWhatWasWritten /\ storeValue.written
           ELSE ~res.ok /\ ~storeValue.written

C26_Witness ==
    /\ res.op = "roundtrip" /\ res.ok
    /\ Len(res.read.p1) = 2 /\ res.read.p1[1] > res.read.p1[2]
    /\ res.read.p1[2] % MS_PER_SECOND = 1
    /\ Len(res.read.p3) = 1

\* the taken dates persisted in a store item, as getTakenScheduleDates returns them
TakenIn(item) == [priority \in Priorities |-> PersistedIn(item, priority)]

\* the slot the allocator gives a tier at instant now, from the dates of the item
SuccessorIn(item, priority, now) ==
    getNextAvailableDate(NormalizeCurrentTime(priority, now), priority, TakenIn(item))

\* the tier has persisted slots and the successor of the last one is not after now
StuckIn(item, priority, now) ==
    /\ PersistedIn(item, priority) # <<>>
    /\ \E successor \in {SuccessorIn(item, priority, now)} :
           successor.ok /\ successor.date <= now

Stuck(priority) == StuckIn(storeValue, priority, clock)

\* C27: with persisted slots the candidate of a tier is the same at every instant; and
\* once the successor of the last persisted slot is not strictly after now, a request
\* for the tier fails and leaves the store unchanged, and the tier is in the same
\* position after every step, whatever the later instant
C27_StuckTierNeverRecovers ==
    /\ [](\A priority \in Priorities :
              Persisted(priority) # <<>>
                  => \A n \in 1..LastInstant :
                         SuccessorIn(storeValue, priority, NowAt(n))
                             = SuccessorIn(storeValue, priority, clock))
    /\ [][\A priority \in Priorities :
              Stuck(priority)
                  => /\ StuckIn(storeValue', priority, NowAt(tick'))
                     /\ (res'.op = "tier" /\ res'.req = priority)
                            => /\ ~res'.ok
                               /\ storeValue' = storeValue]_vars

\* a request has failed on a tier whose successor slot passed a day or more ago,
\* while another tier has persisted slots
C27_Witness ==
    /\ res.op = "tier" /\ ~res.ok /\ res.computed
    /\ Stuck(res.req)
    /\ res.date = SuccessorIn(storeValue, res.req, clock).date
    /\ res.now >= res.date + MS_PER_DAY
    /\ \E other \in Priorities \ {res.req} : Persisted(other) # <<>>

\* seconds is the number of whole seconds in ms milliseconds, rounded down
IsFloorOfSeconds(seconds, ms) ==
    /\ seconds * MS_PER_SECOND <= ms
    /\ ms < (seconds + 1) * MS_PER_SECOND

\* C28: the delay returned is floor((target - now) / 1000); a tier request whose
\* candidate is less than one full second ahead is rejected, so it never returns 0;
\* an explicit date is rejected exactly when it is before now, and returns 0 when it
\* is 0 to 999 ms after now
C28_DelayInWholeSeconds ==
    /\ (res.op \in {"tier", "explicit"} /\ res.ok)
           => IsFloorOfSeconds(res.delay, res.date - res.now)
    /\ (res.op = "tier" /\ res.computed)
           => /\ res.ok <=> res.date - res.now >= MS_PER_SECOND
              /\ res.ok => res.delay >= 1
    /\ res.op = "explicit"
           => /\ res.ok <=> res.date - res.now >= 0
              /\ res.date - res.now \in 0..(MS_PER_SECOND - 1) => res.ok /\ res.delay = 0

\* an explicit date 999 ms after now has been accepted with a delay of 0
C28_Witness ==
    /\ res.op = "explicit" /\ res.ok
    /\ res.date - res.now = MS_PER_SECOND - 1
    /\ res.delay = 0

\* C29: twitterLoader issues at most 5 page requests and then returns, whatever the
\* pages hold and even when every page carries a next_token
C29_AtMostFiveRequests ==
    /\ [](loader.requests <= 5 /\ loader.pages <= loader.requests)
    /\ (loader.pc = "awaitFetch") ~> (loader.pc = "returned")

\* the loader has returned after five pages that each carried a next_token
C29_Witness ==
    /\ loader.pc = "returned"
    /\ loader.requests = 5 /\ loader.pages = 5
    /\ loader.lastToken # NoToken /\ ~loader.lastHadOlder /\ ~loader.threw
    /\ Len(loader.allTweets) = 5 * MaxPageLenLive

\* tweet a comes before tweet b in the pages of the list
ComesBefore(a, b) ==
    \/ a.page < b.page
    \/ a.page = b.page /\ a.index < b.index

\* C30: the tweets returned all have a created_at later than 24 hours before the call
\* and are in page order; and once a fetched page holds a tweet older than 24 hours or
\* has no next_token, no further page is requested: the loader returns
C30_RecentTweetsInPageOrder ==
    /\ [](loader.pc = "returned"
              => /\ \A i \in 1..Len(loader.allTweets) :
                        /\ loader.allTweets[i].created_at.present
                        /\ newDate(loader.allTweets[i].created_at.str)
                               > clock - 24 * MS_PER_HOUR
                 /\ \A i, j \in 1..Len(loader.allTweets) :
                        i < j => ComesBefore(loader.allTweets[i], loader.allTweets[j]))
    /\ [][/\ (loader'.pages > loader.pages
                 /\ (loader'.lastHadOlder \/ loader'.lastToken = NoToken))
              => (loader'.pc = "returned" /\ loader'.requests = loader.requests)
          /\ loader.pc = "returned" => loader' = loader]_vars

\* the loader has returned recent tweets of two pages, the second of which held a
\* tweet older than 24 hours next to a recent one, and a next_token
C30_Witness ==
    /\ loader.pc = "returned"
    /\ loader.pages = 2 /\ loader.requests = 2
    /\ loader.lastHadOlder /\ loader.lastToken # NoToken
    /\ Len(loader.allTweets) = 2
    /\ loader.allTweets[1].page = 1 /\ loader.allTweets[1].index = 2
    /\ loader.allTweets[2].page = 2 /\ loader.allTweets[2].index = 2

\* C31: when a page fetch throws, the loader issues no further request and returns
\* the tweets it had accumulated from the pages fetched before, unchanged; when the
\* first fetch throws it returns the empty list
C31_FetchFailureReturnsAccumulated ==
    /\ []((loader.threw /\ loader.pages = 1) => loader.allTweets = <<>>)
    /\ []((loader.threw /\ loader.pages > 0) => loader.pc = "returned")
    /\ [][(loader'.pages > loader.pages /\ loader'.threw)
              => /\ loader'.pc = "returned"
                 /\ loader'.allTweets = loader.allTweets
                 /\ loader'.requests = loader.requests]_vars

\* the third fetch has thrown and the loader has returned the tweets of the first
\* two pages
C31_Witness ==
    /\ loader.pc = "returned" /\ loader.threw
    /\ loader.pages = 3 /\ loader.requests = 3
    /\ Len(loader.allTweets) = 2 * MaxPageLen
    /\ loader.allTweets[1].page = 1
    /\ loader.allTweets[Len(loader.allTweets)].page = 2

====
